---------------------------- MODULE Spec2Model ----------------------------
(***************************************************************************)
(* A model of the git diff export / LLM analysis pipeline of               *)
(* src/_engine/git (command.py, files_controller.py, engine.py,            *)
(* analysis.py) and of the command-line tool src/main.py.                  *)
(*                                                                         *)
(* Text is modelled as a sequence of symbols.  A path is a sequence of     *)
(* one-character strings, so that str.replace, os.path.basename and        *)
(* os.path.join are computed character by character.  Longer fixed pieces  *)
(* of text (the "Error:" prefix, the body of a message) are one symbol     *)
(* each.  os.sep is the POSIX separator "/", the separator git prints.     *)
(***************************************************************************)
EXTENDS Integers, Sequences, FiniteSets, TLC

VARIABLES
    nm,        \* the file-name derivation: a changed path, its diff file, its display name
    an,        \* one call of analyze_diff_with_llm: its inputs and what it returned
    ls,        \* one call of get_changed_files: its commands' outcomes and what it returned
    cli,       \* one invocation of the command-line tool src/main.py
    xp,        \* one invocation of the standalone exporter src/git/engine.py
    sel,       \* one call of select_model: the models, the inputs typed, what it returned
    revision,  \* the commit_hash of the runs, NoCommit for the uncommitted changes
    nameEnv,   \* what the name-only commands of get_changed_files do in the repository
    listing,   \* what a call of get_changed_files does in the repository (it does not change)
    unitEnv,   \* per changed path: what its git diff command and its file write do
    max_workers, \* the size of the pool of export_git_diffs
    dir,       \* the entries of output_dir
    pc,        \* where analyze_git_changes / export_git_diffs stands
    run,       \* the number of the current run (successive invocations)
    files,     \* files_to_process of the current export
    units,     \* the work units submitted to the ThreadPoolExecutor, one per index of files
    saved,     \* saved_diff_files, in completion order
    ret,       \* what export_git_diffs returned (diff_files in analyze_git_changes)
    results,   \* the (filename, result) pairs of analyze_git_changes
    req,       \* the index in ret of the outstanding chat request, 0 when there is none
    hist       \* history: what the current and the previous run did

vars == <<nm, an, ls, cli, xp, sel, revision, nameEnv, listing, unitEnv, max_workers, dir, pc, run, files, units, saved, ret, results, req, hist>>

-----------------------------------------------------------------------------
(* Bounds *)

\* the longest changed path, in characters
MaxLen == 4
\* the most changed files the lister returns
MaxFiles == 2
\* the number of successive runs
MaxRuns == 2
\* the longest message content of a chat response, in symbols
MaxContent == 3
\* the longest output of a name-only command, in characters
MaxOut == 3
\* the most inputs the user gives to the model selection prompt
MaxPrompts == 2

-----------------------------------------------------------------------------
(* Text *)

Sep == "/"
DiffSuffix == <<"_", "d", "i", "f", "f", ".", "t", "x", "t">>
DoubleUnderscore == <<"_", "_">>
Whitespace == {" ", "\n"}

\* s[i..] starts with pat
MatchAt(s, pat, i) ==
    /\ i + Len(pat) - 1 <= Len(s)
    /\ \A k \in 1..Len(pat) : s[i + k - 1] = pat[k]

RECURSIVE ReplaceFrom(_, _, _, _)
ReplaceFrom(s, old, new, i) ==
    IF i > Len(s) THEN <<>>
    ELSE IF MatchAt(s, old, i) THEN new \o ReplaceFrom(s, old, new, i + Len(old))
    ELSE <<s[i]>> \o ReplaceFrom(s, old, new, i + 1)

\* str.replace(old, new) for a non-empty old: leftmost, non-overlapping occurrences
Replace(s, old, new) == ReplaceFrom(s, old, new, 1)

StartsWith(s, pre) == MatchAt(s, pre, 1)

Contains(s, sym) == \E i \in 1..Len(s) : s[i] = sym

\* the position after the last separator of s (str.rfind(sep) + 1, counting from 1)
AfterLastSep(s) ==
    LET at == {i \in 1..Len(s) : s[i] = Sep}
    IN  IF at = {} THEN 1 ELSE (CHOOSE i \in at : \A j \in at : j <= i) + 1

\* posixpath.basename
Basename(s) == SubSeq(s, AfterLastSep(s), Len(s))

\* posixpath.join of two parts
Join(a, b) ==
    IF b # <<>> /\ b[1] = Sep THEN b
    ELSE IF a = <<>> \/ a[Len(a)] = Sep THEN a \o b
    ELSE a \o <<Sep>> \o b

RECURSIVE LStrip(_)
LStrip(s) == IF s # <<>> /\ Head(s) \in Whitespace THEN LStrip(Tail(s)) ELSE s

RECURSIVE RStrip(_)
RStrip(s) ==
    IF s # <<>> /\ s[Len(s)] \in Whitespace THEN RStrip(SubSeq(s, 1, Len(s) - 1)) ELSE s

\* str.strip()
Strip(s) == RStrip(LStrip(s))

-----------------------------------------------------------------------------
(* File names: generate_and_save_diff and the analyzer's display name *)

OutputDir == <<"temp_diffs">>

\* safe_filename = file_path.replace(os.sep, "__")
SafeFilename(file_path) == Replace(file_path, <<Sep>>, DoubleUnderscore)

\* output_path = os.path.join(output_dir, f"{safe_filename}_diff.txt")
OutputPath(file_path, output_dir) == Join(output_dir, SafeFilename(file_path) \o DiffSuffix)

\* filename = os.path.basename(diff_file).replace("_diff.txt", "").replace("__", "/")
DisplayName(diff_file) ==
    Replace(Replace(Basename(diff_file), DiffSuffix, <<>>), DoubleUnderscore, <<Sep>>)

PathAlphabet == {"a", "_", Sep}

\* a repository-relative path as git prints it: no empty component
IsRelPath(s) ==
    /\ s # <<>>
    /\ s[1] # Sep
    /\ s[Len(s)] # Sep
    /\ \A i \in 1..(Len(s) - 1) : ~(s[i] = Sep /\ s[i + 1] = Sep)

AllPaths ==
    {s \in UNION {[1..n -> PathAlphabet] : n \in 1..MaxLen} : IsRelPath(s)}

IsNested(s) == Contains(s, Sep)


-----------------------------------------------------------------------------
(* Exceptions *)

\* the classes an exception kind belongs to (itself and its base classes)
Supers(kind) ==
    CASE kind = "FileNotFoundError" -> {"FileNotFoundError", "OSError", "Exception", "BaseException"}
      [] kind = "PermissionError" -> {"PermissionError", "OSError", "Exception", "BaseException"}
      [] kind = "ConnectionError" ->
           {"ConnectionError", "RequestException", "OSError", "Exception", "BaseException"}
      [] kind = "Timeout" -> {"Timeout", "RequestException", "OSError", "Exception", "BaseException"}
      [] kind = "JSONDecodeError" ->
           {"JSONDecodeError", "RequestException", "ValueError", "OSError", "Exception", "BaseException"}
      [] kind = "AttributeError" -> {"AttributeError", "Exception", "BaseException"}
      [] kind = "KeyboardInterrupt" -> {"KeyboardInterrupt", "BaseException"}
      [] OTHER -> {kind, "BaseException"}

-----------------------------------------------------------------------------
(* Command Runner: run_git_command *)

\* What running a command can do: the process exits, or subprocess.run raises.
ExitOutcome(rc, out, err) == [kind |-> "exit", rc |-> rc, out |-> out, err |-> err]
NotFoundOutcome == [kind |-> "FileNotFoundError", rc |-> 0, out |-> <<>>, err |-> <<>>]
OSErrorOutcome == [kind |-> "PermissionError", rc |-> 0, out |-> <<>>, err |-> <<>>]
\* a command that is not run
NoOutcome == [kind |-> "none", rc |-> 0, out |-> <<>>, err |-> <<>>]

\* the except clauses with the last one, except Exception, left out
RunHandlersWithoutCatchAll == <<"FileNotFoundError">>

\* the except clauses of run_git_command, in order
RunHandlers == <<"FileNotFoundError", "Exception">>

\* the first except clause of run_git_command that catches kind, 0 when none does
RunCatching(kind) ==
    LET hit == {i \in 1..Len(RunHandlers) : RunHandlers[i] \in Supers(kind)}
    IN  IF hit = {} THEN 0 ELSE CHOOSE i \in hit : \A j \in hit : i <= j

\* what run_git_command hands to its caller: a tuple, or an exception that leaves it
RunResult(rc, out, err) == [raised |-> FALSE, exc |-> "", rc |-> rc, out |-> out, err |-> err]
RunRaised(kind) == [raised |-> TRUE, exc |-> kind, rc |-> 0, out |-> <<>>, err |-> <<>>]

GitNotFoundMsg == <<"Git command not found. Is Git installed and in your PATH?">>

\* the runner with check=True and no except clause: a non-zero exit code raises
RunGitCommandChecked(o) ==
    IF o.kind = "exit" /\ o.rc = 0 THEN RunResult(o.rc, Strip(o.out), Strip(o.err))
    ELSE IF o.kind = "exit" THEN RunRaised("CalledProcessError")
    ELSE RunRaised(o.kind)

\* (returncode, stdout.strip(), stderr.strip()), or (1, "", error_msg) when subprocess.run raises
RunGitCommand(o) ==
    IF o.kind = "exit" THEN RunResult(o.rc, Strip(o.out), Strip(o.err))
    ELSE IF RunCatching(o.kind) = 0 THEN RunRaised(o.kind)
    ELSE IF RunCatching(o.kind) = 1 THEN RunResult(1, <<>>, GitNotFoundMsg)
    ELSE RunResult(1, <<>>, <<"Exception running command", o.kind>>)

-----------------------------------------------------------------------------
(* Change-Set Lister: get_changed_files *)

CharRank(c) ==
    CASE c = "\n" -> 10
      [] c = " " -> 32
      [] c = Sep -> 47
      [] c = "_" -> 95
      [] c = "a" -> 97
      [] c = "d" -> 100
      [] OTHER -> 127

\* s < t for Python strings: the first differing character decides, a proper prefix is smaller
RECURSIVE StrLess(_, _)
StrLess(s, t) ==
    IF t = <<>> THEN FALSE
    ELSE IF s = <<>> THEN TRUE
    ELSE IF Head(s) = Head(t) THEN StrLess(Tail(s), Tail(t))
    ELSE CharRank(Head(s)) < CharRank(Head(t))

\* list(files) in the opposite order
RECURSIVE SortedDescending(_)
SortedDescending(S) ==
    IF S = {} THEN <<>>
    ELSE LET m == CHOOSE x \in S : \A y \in S \ {x} : StrLess(y, x)
         IN  <<m>> \o SortedDescending(S \ {m})

\* sorted(list(files))
RECURSIVE Sorted(_)
Sorted(S) ==
    IF S = {} THEN <<>>
    ELSE LET m == CHOOSE x \in S : \A y \in S \ {x} : StrLess(x, y)
         IN  <<m>> \o Sorted(S \ {m})

\* str.splitlines(): the text between line breaks, no empty last line
RECURSIVE SplitLines(_)
SplitLines(s) ==
    IF s = <<>> THEN <<>>
    ELSE LET brk == {i \in 1..Len(s) : s[i] = "\n"}
         IN  IF brk = {} THEN <<s>>
             ELSE LET k == CHOOSE i \in brk : \A j \in brk : i <= j
                  IN  <<SubSeq(s, 1, k - 1)>> \o SplitLines(SubSeq(s, k + 1, Len(s)))

\* returncode and stdout.splitlines() of a command's result
NameResult(r) == [rc |-> r.rc, lines |-> SplitLines(r.out)]

\* {f for f in stdout.splitlines() if f.strip()}
NonBlankLines(lines) == {lines[i] : i \in {j \in 1..Len(lines) : Strip(lines[j]) # <<>>}}

NoCommit == <<>>

\* the lister giving up when the staged command fails, as it does for a commit
GetChangedFilesStopsOnFailure(commit_hash, out) ==
    IF commit_hash # NoCommit
    THEN IF out.tree.rc # 0 THEN <<>> ELSE Sorted(NonBlankLines(out.tree.lines))
    ELSE IF out.staged.rc # 0 THEN <<>>
    ELSE Sorted(NonBlankLines(out.staged.lines) \cup NonBlankLines(out.unstaged.lines))

\* out.tree, out.staged, out.unstaged: what the name-only commands returned (stdout as its lines)
GetChangedFiles(commit_hash, out) ==
    IF commit_hash # NoCommit
    THEN IF out.tree.rc # 0 THEN <<>> ELSE Sorted(NonBlankLines(out.tree.lines))
    ELSE Sorted(NonBlankLines(out.staged.lines) \cup NonBlankLines(out.unstaged.lines))

-----------------------------------------------------------------------------
(* The repository and the file system the pipeline runs against *)

\* the files that may be changed in the repository
RepoPool == {<<"a">>, <<"a", Sep, "a">>, <<"a", "_", "_", "a">>}

\* a name-only command that is not run
NotRun == [rc |-> 0, lines |-> <<>>]
Commits == {NoCommit, <<"c1">>}

\* what the diff command of one file does, and whether its diff file can be written
DiffOutcomes ==
    {ExitOutcome(0, <<"d", "\n">>, <<>>), ExitOutcome(0, <<"\n">>, <<>>),
     ExitOutcome(1, <<"d", "\n">>, <<"fatal">>), ExitOutcome(128, <<>>, <<"fatal">>),
     NotFoundOutcome}
NoDiff == [cmd |-> ExitOutcome(0, <<"\n">>, <<>>), wr |-> TRUE]
UnitEnvs ==
    {[cmd |-> c, wr |-> w] : c \in DiffOutcomes, w \in BOOLEAN}

\* an entry of output_dir: its path, file or directory, and the run that wrote it (0: none)
Entry(path, kind, by) == [path |-> path, kind |-> kind, by |-> by]
\* what output_dir may hold before the first run: an old diff file and a subdirectory
StaleEntries ==
    {Entry(OutputPath(<<"a">>, OutputDir), "file", 0), Entry(Join(OutputDir, <<"_">>), "dir", 0)}


-----------------------------------------------------------------------------
(* Directory preparation: clear_directory_content *)

\* the clearing reporting success although os.makedirs or os.listdir raised
ClearDirectoryContentNeverFails(d, crit, failed) == [ok |-> TRUE, dir |-> d \cap failed]

\* crit: os.makedirs or os.listdir raised; failed: the entries whose removal raised.
\* A removal that raises is reported and the loop goes on; the function then returns True.
ClearDirectoryContent(d, crit, failed) ==
    IF crit THEN [ok |-> FALSE, dir |-> d] ELSE [ok |-> TRUE, dir |-> d \cap failed]

-----------------------------------------------------------------------------
(* One unit of work: generate_and_save_diff *)

None == <<>>

\* the lines up to the diff command: the unit gives up on an empty path or directory
InvalidInput(file_path, output_dir) == file_path = <<>> \/ output_dir = <<>>

\* the verdict without the check of the exit code
DiffVerdictIgnoresExitCode(r) == IF Strip(r.out) = <<>> THEN "nodiff" ELSE "write"

\* the verdict without the check for an empty diff
DiffVerdictWritesEmpty(r) == IF r.rc # 0 THEN "failed" ELSE "write"

\* what the unit does with the command's result: "failed" (non-zero exit code),
\* "nodiff" (nothing but whitespace) or "write"
DiffVerdict(r) ==
    IF r.rc # 0 THEN "failed"
    ELSE IF Strip(r.out) = <<>> THEN "nodiff"
    ELSE "write"

\* open(output_path, "w") raises when the write is refused or a directory has the name
WriteRaises(d, output_path, wr) ==
    ~wr \/ \E e \in d : e.path = output_path /\ e.kind = "dir"

\* the path returned although the write raised
SavedPathAfterFailedWrite(output_path, raised) == output_path

\* lines 125-134: the path on success, None when the write raised
SavedPath(output_path, raised) == IF raised THEN None ELSE output_path

\* the write preceded by a clearing of the directory
WriteFileIntoClearedDir(d, output_path, n) == {Entry(output_path, "file", n)}

\* the directory after the unit wrote output_path in run n
WriteFile(d, output_path, n) ==
    {e \in d : e.path # output_path} \cup {Entry(output_path, "file", n)}

Unit(file_path) == [path |-> file_path, st |-> "queued", out |-> None]

-----------------------------------------------------------------------------
(* Diff Analyzer: analyze_diff_with_llm *)

ErrorPrefix == <<"Error:">>
NoAnalysis == <<"No analysis available">>

\* the except clauses with the last one, except Exception, left out
HandlersWithoutCatchAll == <<"FileNotFoundError", "RequestException">>

\* the except clauses of analyze_diff_with_llm, in order
Handlers == <<"FileNotFoundError", "RequestException", "Exception">>

\* the first except clause that catches kind, 0 when none does
Catching(kind) ==
    LET hit == {i \in 1..Len(Handlers) : Handlers[i] \in Supers(kind)}
    IN  IF hit = {} THEN 0 ELSE CHOOSE i \in hit : \A j \in hit : i <= j

\* what a call yields: a returned value, or an exception that leaves the function
Returns(v) == [raised |-> FALSE, exc |-> "", value |-> v]
Raises(kind) == [raised |-> TRUE, exc |-> kind, value |-> <<>>]

\* an HTTP response, and a request that raised instead
Response(status, body) == [kind |-> "response", status |-> status, body |-> body]
RequestRaised(kind) == [kind |-> kind, status |-> 0, body |-> [json |-> "none"]]
\* a JSON object with message.content = x; one without the key; one whose content is null
ContentBody(x) == [json |-> "object", content |-> "string", text |-> x]
NoContentBody == [json |-> "object", content |-> "absent", text |-> <<>>]
NullContentBody == [json |-> "object", content |-> "null", text |-> <<>>]
InvalidBody == [json |-> "invalid"]
ListBody == [json |-> "array"]

\* the try block returning message.content as it came, not stripped
TryAnalyzeUntrimmed(diff_file, rd, h) ==
    LET filename == DisplayName(diff_file)
    IN  IF rd # "ok" THEN Raises(rd)
        ELSE IF h.kind # "response" THEN Raises(h.kind)
        ELSE IF h.status = 200
        THEN IF h.body.json = "invalid" THEN Raises("JSONDecodeError")
             ELSE IF h.body.json # "object" THEN Raises("AttributeError")
             ELSE IF h.body.content = "null" THEN Raises("AttributeError")
             ELSE IF h.body.content = "absent" THEN Returns(NoAnalysis)
             ELSE Returns(h.body.text)
        ELSE Returns(ErrorPrefix \o <<" API Error (", ToString(h.status), ") analyzing ">>
                       \o filename \o <<". Details: ", "response.text">>)

\* the try block: read the file, post the request, process the response.
\* rd: "ok", or the exception open() raised; h: what requests.post did
TryAnalyze(diff_file, rd, h) ==
    LET filename == DisplayName(diff_file)
    IN  IF rd # "ok" THEN Raises(rd)
        ELSE IF h.kind # "response" THEN Raises(h.kind)
        ELSE IF h.status = 200
        THEN IF h.body.json = "invalid" THEN Raises("JSONDecodeError")
             ELSE IF h.body.json # "object" THEN Raises("AttributeError")
             ELSE IF h.body.content = "null" THEN Raises("AttributeError")
             ELSE IF h.body.content = "absent" THEN Returns(Strip(NoAnalysis))
             ELSE Returns(Strip(h.body.text))
        ELSE Returns(ErrorPrefix \o <<" API Error (", ToString(h.status), ") analyzing ">>
                       \o filename \o <<". Details: ", "response.text">>)

\* the except clauses: each returns its error message
Handled(clause, diff_file, kind) ==
    LET filename == DisplayName(diff_file)
    IN  CASE clause = 1 -> ErrorPrefix \o <<" Diff file not found: ">> \o diff_file
          [] clause = 2 ->
               ErrorPrefix \o <<" Network or API request failed for ">> \o filename \o <<": ", kind>>
          [] OTHER ->
               ErrorPrefix \o <<" An unexpected error occurred processing ">> \o diff_file
                 \o <<": ", kind>>

AnalyzeDiffWithLlm(diff_file, rd, h) ==
    LET t == TryAnalyze(diff_file, rd, h)
    IN  IF ~t.raised THEN t
        ELSE IF Catching(t.exc) = 0 THEN t
        ELSE Returns(Handled(Catching(t.exc), diff_file, t.exc))

\* what open(diff_file, "r") does in directory d
ReadFile(d, diff_file) ==
    IF \E e \in d : e.path = diff_file /\ e.kind = "file" THEN "ok"
    ELSE IF \E e \in d : e.path = diff_file THEN "IsADirectoryError"
    ELSE "FileNotFoundError"

\* what the model server does to a request of a run
RunHttp ==
    {Response(200, ContentBody(<<"x", "\n">>)), Response(200, ContentBody(<<"Error:", "x">>)),
     Response(500, InvalidBody), RequestRaised("ConnectionError")}

-----------------------------------------------------------------------------
(* The history the properties read *)

RunHist ==
    [cleared |-> FALSE,      \* clear_directory_content returned True
     kept |-> {},            \* the entries the clearing failed to remove
     crit |-> FALSE,         \* os.makedirs or os.listdir raised in the preparation
     aborted |-> FALSE,      \* the export aborted on a failed preparation
     export_raised |-> "",   \* the exception that left export_git_diffs, if any
     listed |-> FALSE,       \* get_changed_files was called
     pool |-> FALSE,         \* the ThreadPoolExecutor was created
     diffs |-> <<>>,         \* the units a diff command was run for, in order
     failed |-> {},          \* the units whose diff command exited non-zero
     errors |-> {},          \* the units that reported an error
     written |-> <<>>,       \* the units that wrote their diff file, in order
     sent |-> <<>>,          \* the diff files sent to the model, in order
     statuses |-> <<>>,      \* per result: the HTTP status obtained, 0 without a response
     summary |-> FALSE,      \* the final summary was printed
     success_count |-> 0,    \* the counts the summary printed
     error_count |-> 0]

NoPrev == [valid |-> FALSE, names |-> {}, crit |-> FALSE, ret |-> <<>>]

-----------------------------------------------------------------------------
(* analyze_git_changes driving export_git_diffs *)

\* get_changed_files on the outcomes env.tree, env.staged, env.unstaged of its commands,
\* each run by run_git_command: the list, or the exception that left the runner
ListerCall(commit, env) ==
    IF commit # NoCommit
    THEN LET r == RunGitCommand(env.tree)
         IN  IF r.raised THEN Raises(r.exc)
             ELSE Returns(GetChangedFiles(commit, [tree |-> NameResult(r), staged |-> NotRun,
                                                   unstaged |-> NotRun]))
    ELSE LET rs == RunGitCommand(env.staged)
             ru == RunGitCommand(env.unstaged)
         IN  IF rs.raised THEN Raises(rs.exc)
             ELSE IF ru.raised THEN Raises(ru.exc)
             ELSE Returns(GetChangedFiles(commit, [tree |-> NotRun, staged |-> NameResult(rs),
                                                   unstaged |-> NameResult(ru)]))

\* a revision without a parent
RootCommit == <<"root">>

\* the names as git prints them: one per line
RECURSIVE JoinLines(_)
JoinLines(paths) ==
    IF paths = <<>> THEN <<>> ELSE Head(paths) \o <<"\n">> \o JoinLines(Tail(paths))

\* what a name-only command prints in the repository: some files of the pool
PoolLists == {Sorted(S) : S \in {T \in SUBSET RepoPool : Cardinality(T) <= MaxFiles}}
Printed(paths) == ExitOutcome(0, JoinLines(paths), <<>>)
Fatal == ExitOutcome(128, <<>>, <<"fatal">>)

\* the revision of a run and what its name-only commands do: a commit (with or
\* without a parent) runs the tree command, which prints names, fails or cannot be
\* started; no commit runs the staged and the unstaged command, one of which may fail
Targets ==
    {[commit |-> c, env |-> [tree |-> t, staged |-> NoOutcome, unstaged |-> NoOutcome]] :
        c \in {<<"c1">>, RootCommit},
        t \in {Printed(l) : l \in PoolLists} \cup {Fatal, OSErrorOutcome}}
      \cup {[commit |-> NoCommit, env |-> [tree |-> NoOutcome, staged |-> Printed(l),
                                           unstaged |-> Printed(<<>>)]] : l \in PoolLists}
      \cup {[commit |-> NoCommit, env |-> [tree |-> NoOutcome, staged |-> Fatal,
                                           unstaged |-> Printed(l)]] : l \in PoolLists}

\* the diff command of a file of a revision without a parent names the revision's
\* parent, which git cannot resolve
DiffOutcomesOf(commit) == IF commit = RootCommit THEN {Fatal} ELSE DiffOutcomes

NmIdle == [stage |-> "off"]
AnIdle == [stage |-> "off"]
LsIdle == [stage |-> "off"]
CliIdle == [stage |-> "off"]
XpIdle == [stage |-> "off"]
SelIdle == [stage |-> "off"]

\* the default of export_git_diffs: os.cpu_count() or 4, on a host with two CPUs
DEFAULT_MAX_WORKERS == 2
\* and on the hosts of the model, which have one CPU or two
WorkerCounts == {1, DEFAULT_MAX_WORKERS}

\* the pool whose workers never take a unit
PoolHasRoomNever(running, size) == FALSE

\* the pool taking every queued unit at once
PoolHasRoomAlways(running, size) == TRUE

\* ThreadPoolExecutor(max_workers): a unit starts when fewer than max_workers are running
PoolHasRoom(running, size) == Cardinality(running) < size

Init ==
    /\ nm = NmIdle
    /\ an = AnIdle
    /\ ls = LsIdle
    /\ cli = CliIdle
    /\ xp = XpIdle
    /\ sel = SelIdle
    /\ \E t \in Targets :
         /\ revision = t.commit
         /\ nameEnv = t.env
         /\ listing = ListerCall(t.commit, t.env)
    /\ unitEnv \in {f \in [RepoPool -> UnitEnvs] :
                      \A p \in RepoPool :
                        /\ (\A i \in 1..Len(listing.value) : listing.value[i] # p) =>
                             f[p] = NoDiff
                        /\ (\E i \in 1..Len(listing.value) : listing.value[i] = p) =>
                             f[p].cmd \in DiffOutcomesOf(revision)
                        /\ DiffVerdict(RunGitCommand(f[p].cmd)) # "write" => f[p].wr}
    /\ max_workers \in WorkerCounts
    /\ dir \in SUBSET StaleEntries
    /\ pc = "idle"
    /\ run = 1
    /\ files = <<>>
    /\ units = <<>>
    /\ saved = <<>>
    /\ ret = <<>>
    /\ results = <<>>
    /\ req = 0
    /\ hist = [cur |-> RunHist, prev |-> NoPrev]

\* the analysis entered whatever export_git_diffs returned
ReturnedAlwaysAnalyzes(r) ==
    /\ ret' = r
    /\ pc' = "analyzing"

\* export_git_diffs has returned r: analyze_git_changes stops on an empty list
Returned(r) ==
    /\ ret' = r
    /\ pc' = IF r = <<>> THEN "done" ELSE "analyzing"

\* 1. Preparation: the directory is cleared, or the export aborts
Clear ==
    /\ pc = "idle"
    /\ \E crit \in BOOLEAN, failed \in SUBSET dir :
         LET c == ClearDirectoryContent(dir, crit, failed)
         IN  /\ dir' = c.dir
             /\ IF c.ok
                THEN /\ pc' = "cleared"
                     /\ hist' = [hist EXCEPT !.cur.cleared = TRUE, !.cur.kept = c.dir,
                                             !.cur.crit = crit]
                     /\ ret' = ret
                ELSE /\ hist' = [hist EXCEPT !.cur.aborted = TRUE, !.cur.crit = crit]
                     /\ Returned(<<>>)
    /\ UNCHANGED <<nm, an, ls, cli, xp, sel, revision, nameEnv, listing, unitEnv, max_workers, run, files, units, saved, results, req>>

\* the early return never taken
NoChangesNever(files_to_process) == FALSE

\* line 175: if not files_to_process
NoChanges(files_to_process) == files_to_process = <<>>

\* 2. Get the changed files; 3. create the pool and submit one unit per file.
\* An exception of get_changed_files leaves export_git_diffs; analyze_git_changes
\* catches it and returns its empty results.  The repository is the same in every
\* run, so the call does what ListerCall(revision, nameEnv) gives: listing.
List ==
    /\ pc = "cleared"
    /\ LET r == listing
       IN  IF r.raised
           THEN /\ Returned(<<>>)
                /\ files' = files
                /\ units' = units
                /\ hist' = [hist EXCEPT !.cur.export_raised = r.exc]
           ELSE /\ files' = r.value
                /\ IF NoChanges(r.value)
                   THEN /\ Returned(<<>>)
                        /\ units' = units
                        /\ hist' = [hist EXCEPT !.cur.listed = TRUE]
                   ELSE /\ pc' = "pool"
                        /\ units' = [i \in 1..Len(r.value) |-> Unit(r.value[i])]
                        /\ hist' = [hist EXCEPT !.cur.listed = TRUE, !.cur.pool = TRUE]
                        /\ ret' = ret
    /\ UNCHANGED <<nm, an, ls, cli, xp, sel, revision, nameEnv, listing, unitEnv, max_workers, dir, run, saved, results, req>>

Running == {i \in 1..Len(units) : units[i].st \in {"running", "writing"}}

\* a free worker thread takes the next queued unit
UnitStart(i) ==
    /\ pc = "pool"
    /\ units[i].st = "queued"
    /\ \A j \in 1..(i - 1) : units[j].st # "queued"
    /\ PoolHasRoom(Running, max_workers)
    /\ units' = [units EXCEPT ![i].st = "running"]
    /\ UNCHANGED <<nm, an, ls, cli, xp, sel, revision, nameEnv, listing, unitEnv, max_workers, dir, pc, run, files, saved, ret, results, req, hist>>

\* the unit running its diff command again after a failure
AfterDiffRetrying(v) == IF v = "write" THEN "writing" ELSE IF v = "failed" THEN "running" ELSE "done"

\* lines 110-125: the unit goes on to write its file, or returns None at once
AfterDiff(v) == IF v = "write" THEN "writing" ELSE "done"

\* the unit runs its diff command and decides what to do with the result
UnitDiff(i) ==
    /\ pc = "pool"
    /\ units[i].st = "running"
    /\ IF InvalidInput(units[i].path, OutputDir)
       THEN /\ units' = [units EXCEPT ![i].st = "done"]
            /\ hist' = [hist EXCEPT !.cur.errors = @ \cup {i}]
       ELSE LET r == RunGitCommand(unitEnv[units[i].path].cmd)
                v == IF r.raised THEN "failed" ELSE DiffVerdict(r)
            IN  /\ units' = [units EXCEPT ![i].st = AfterDiff(v)]
                /\ hist' = [hist EXCEPT
                              !.cur.diffs = Append(@, i),
                              !.cur.failed = IF r.rc # 0 THEN @ \cup {i} ELSE @,
                              !.cur.errors = IF v = "failed" THEN @ \cup {i} ELSE @]
    /\ UNCHANGED <<nm, an, ls, cli, xp, sel, revision, nameEnv, listing, unitEnv, max_workers, dir, pc, run, files, saved, ret, results, req>>

\* the unit writes its diff file and returns the path, or None when the write raises
UnitWrite(i) ==
    /\ pc = "pool"
    /\ units[i].st = "writing"
    /\ LET output_path == OutputPath(units[i].path, OutputDir)
           raised == WriteRaises(dir, output_path, unitEnv[units[i].path].wr)
       IN  /\ units' = [units EXCEPT ![i].st = "done", ![i].out = SavedPath(output_path, raised)]
           /\ IF raised
              THEN /\ dir' = dir
                   /\ hist' = [hist EXCEPT !.cur.errors = @ \cup {i}]
              ELSE /\ dir' = WriteFile(dir, output_path, run)
                   /\ hist' = [hist EXCEPT !.cur.written = Append(@, i)]
    /\ UNCHANGED <<nm, an, ls, cli, xp, sel, revision, nameEnv, listing, unitEnv, max_workers, pc, run, files, saved, ret, results, req>>

\* the as_completed loop takes a finished future: a path is appended, None is not
Collect(i) ==
    /\ pc = "pool"
    /\ units[i].st = "done"
    /\ units' = [units EXCEPT ![i].st = "collected"]
    /\ saved' = IF units[i].out # None THEN Append(saved, units[i].out) ELSE saved
    /\ UNCHANGED <<nm, an, ls, cli, xp, sel, revision, nameEnv, listing, unitEnv, max_workers, dir, pc, run, files, ret, results, req, hist>>

\* every future was taken: the pool shuts down and export_git_diffs returns saved_diff_files
ExportReturn ==
    /\ pc = "pool"
    /\ \A i \in 1..Len(units) : units[i].st = "collected"
    /\ Returned(saved)
    /\ UNCHANGED <<nm, an, ls, cli, xp, sel, revision, nameEnv, listing, unitEnv, max_workers, dir, run, files, units, saved, results, req, hist>>


\* the loop going on while a request is outstanding
LoopCanAdvanceAlways(outstanding) == TRUE

\* analyze_diff_with_llm is called in the loop's own thread and requests.post blocks:
\* the loop reaches its next file only when no request is outstanding
LoopCanAdvance(outstanding) == outstanding = 0

\* the loop takes the next diff file, reads it and posts the chat request; a file that
\* cannot be read gives its error result at once
SendRequest ==
    /\ pc = "analyzing"
    /\ LoopCanAdvance(req)
    /\ Len(results) < Len(ret)
    /\ LET diff_file == ret[Len(results) + 1]
           rd == ReadFile(dir, diff_file)
       IN  IF rd = "ok"
           THEN /\ req' = Len(results) + 1
                /\ hist' = [hist EXCEPT !.cur.sent = Append(@, diff_file)]
                /\ UNCHANGED <<results, pc>>
           ELSE LET r == AnalyzeDiffWithLlm(diff_file, rd, RequestRaised("none"))
                IN  /\ IF r.raised
                       THEN pc' = "raised" /\ results' = results /\ hist' = hist
                       ELSE /\ pc' = pc
                            /\ results' = Append(results, <<DisplayName(diff_file), r.value>>)
                            /\ hist' = [hist EXCEPT !.cur.statuses = Append(@, 0)]
                    /\ req' = req
    /\ UNCHANGED <<nm, an, ls, cli, xp, sel, revision, nameEnv, listing, unitEnv, max_workers, dir, run, files, units, saved, ret>>

\* the request returns or raises: the result is stored and the progress advances
Receive ==
    /\ pc = "analyzing"
    /\ req # 0
    /\ \E h \in RunHttp :
         LET r == AnalyzeDiffWithLlm(ret[req], "ok", h)
         IN  IF r.raised
             THEN pc' = "raised" /\ results' = results /\ hist' = hist
             ELSE /\ pc' = pc
                  /\ results' = Append(results, <<DisplayName(ret[req]), r.value>>)
                  /\ hist' = [hist EXCEPT !.cur.statuses = Append(@, h.status)]
    /\ req' = 0
    /\ UNCHANGED <<nm, an, ls, cli, xp, sel, revision, nameEnv, listing, unitEnv, max_workers, dir, run, files, units, saved, ret>>

\* every result counted as an error
IsErrorAlways(result) == TRUE

\* result.startswith("Error:")
IsError(result) == StartsWith(result, ErrorPrefix)

\* sum(1 for _, result in results if not result.startswith("Error:"))
SuccessCount(rs) == Cardinality({k \in 1..Len(rs) : ~IsError(rs[k][2])})

\* every diff file was analyzed: the summary is printed and results returned
Summary ==
    /\ pc = "analyzing"
    /\ req = 0
    /\ Len(results) = Len(ret)
    /\ pc' = "done"
    /\ hist' = [hist EXCEPT !.cur.summary = TRUE,
                            !.cur.success_count = SuccessCount(results),
                            !.cur.error_count = Len(results) - SuccessCount(results)]
    /\ UNCHANGED <<nm, an, ls, cli, xp, sel, revision, nameEnv, listing, unitEnv, max_workers, dir, run, files, units, saved, ret, results, req>>

\* the names of the entries of paths
Names(paths) == {paths[i] : i \in 1..Len(paths)}

\* the tool is invoked again on the same repository and output directory
NextRun ==
    /\ pc = "done"
    /\ run < MaxRuns
    /\ run' = run + 1
    /\ pc' = "idle"
    /\ files' = <<>>
    /\ units' = <<>>
    /\ saved' = <<>>
    /\ ret' = <<>>
    /\ results' = <<>>
    /\ hist' = [cur |-> RunHist,
                prev |-> [valid |-> ~hist.cur.aborted, names |-> Names(ret),
                          crit |-> hist.cur.crit, ret |-> ret]]
    /\ UNCHANGED <<nm, an, ls, cli, xp, sel, revision, nameEnv, listing, unitEnv, max_workers, dir, req>>

Next ==
    \/ Clear
    \/ List
    \/ \E i \in 1..MaxFiles + 1 : i <= Len(units) /\ UnitStart(i)
    \/ \E i \in 1..MaxFiles + 1 : i <= Len(units) /\ UnitDiff(i)
    \/ \E i \in 1..MaxFiles + 1 : i <= Len(units) /\ UnitWrite(i)
    \/ \E i \in 1..MaxFiles + 1 : i <= Len(units) /\ Collect(i)
    \/ ExportReturn
    \/ SendRequest
    \/ Receive
    \/ Summary
    \/ NextRun

Spec == Init /\ [][Next]_vars

\* a step of the current run: the thread of analyze_git_changes or a worker of the pool
RunStep ==
    \/ Clear
    \/ List
    \/ \E i \in 1..MaxFiles + 1 : i <= Len(units) /\ UnitStart(i)
    \/ \E i \in 1..MaxFiles + 1 : i <= Len(units) /\ UnitDiff(i)
    \/ \E i \in 1..MaxFiles + 1 : i <= Len(units) /\ UnitWrite(i)
    \/ \E i \in 1..MaxFiles + 1 : i <= Len(units) /\ Collect(i)
    \/ ExportReturn
    \/ SendRequest
    \/ Receive
    \/ Summary

\* The threads of a run are scheduled, every git subprocess exits and every chat
\* request returns or raises: a run that can take a step eventually takes one.
\* Whether the tool is invoked again is up to the user.
\* It is checked on a repository under a commit whose diff files can be written,
\* the output directory being empty before the first run.
InitLive ==
    /\ Init
    /\ revision # NoCommit
    /\ dir = {}
    /\ \A p \in RepoPool : unitEnv[p].wr
SpecLive == InitLive /\ [][Next]_vars /\ WF_vars(RunStep)


-----------------------------------------------------------------------------
(* The pipeline's variables while a single function is exercised *)

PipelineOff ==
    /\ revision = NoCommit
    /\ nameEnv = [tree |-> NoOutcome, staged |-> NoOutcome, unstaged |-> NoOutcome]
    /\ listing = Returns(<<>>)
    /\ unitEnv = [p \in RepoPool |-> NoDiff]
    /\ max_workers = DEFAULT_MAX_WORKERS
    /\ dir = {}
    /\ pc = "off"
    /\ run = 1
    /\ files = <<>>
    /\ units = <<>>
    /\ saved = <<>>
    /\ ret = <<>>
    /\ results = <<>>
    /\ req = 0
    /\ hist = [cur |-> RunHist, prev |-> NoPrev]

pipeline == <<revision, nameEnv, listing, unitEnv, max_workers, dir, pc, run, files, units, saved, ret, results, req, hist>>

-----------------------------------------------------------------------------
(* The diff file of a changed path and the display name derived from it *)

OutputDirs == {OutputDir, <<"o", "_", "_", Sep, "d">>}

InitNames ==
    /\ nm \in [stage : {"path"}, dir : OutputDirs, p : AllPaths, out : {<<>>}, disp : {<<>>}]
    /\ an = AnIdle
    /\ ls = LsIdle
    /\ cli = CliIdle
    /\ xp = XpIdle
    /\ sel = SelIdle
    /\ PipelineOff

\* generate_and_save_diff computes the output path of the changed file
NamesExport ==
    /\ nm.stage = "path"
    /\ nm' = [nm EXCEPT !.stage = "exported", !.out = OutputPath(nm.p, nm.dir)]
    /\ UNCHANGED <<an, ls, cli, xp, sel, pipeline>>

\* the analyzer derives the display name from the first diff file
NamesDisplay ==
    /\ nm.stage = "exported"
    /\ nm' = [nm EXCEPT !.stage = "displayed", !.disp = DisplayName(nm.out)]
    /\ UNCHANGED <<an, ls, cli, xp, sel, pipeline>>

NextNames == NamesExport \/ NamesDisplay

SpecNames == InitNames /\ [][NextNames]_vars

-----------------------------------------------------------------------------
(* One call of analyze_diff_with_llm *)

ContentAlphabet == {" ", "x", "Error:"}
Contents == UNION {[1..n -> ContentAlphabet] : n \in 0..MaxContent}
Bodies == {ContentBody(x) : x \in Contents} \cup {NoContentBody, NullContentBody, InvalidBody, ListBody}
Statuses == {200, 404, 500}
HttpOutcomes ==
    {Response(st, b) : st \in Statuses, b \in Bodies}
      \cup {RequestRaised(k) : k \in {"ConnectionError", "Timeout", "KeyboardInterrupt"}}
ReadOutcomes == {"ok", "FileNotFoundError", "PermissionError"}

InitAnalyze ==
    /\ an \in [stage : {"called"}, diff_file : {OutputPath(p, OutputDir) : p \in RepoPool},
               rd : ReadOutcomes, h : HttpOutcomes, res : {Returns(<<>>)}]
    /\ nm = NmIdle
    /\ ls = LsIdle
    /\ cli = CliIdle
    /\ xp = XpIdle
    /\ sel = SelIdle
    /\ PipelineOff

AnalyzeCall ==
    /\ an.stage = "called"
    /\ an' = [an EXCEPT !.stage = "left", !.res = AnalyzeDiffWithLlm(an.diff_file, an.rd, an.h)]
    /\ UNCHANGED <<nm, ls, cli, xp, sel, pipeline>>

NextAnalyze == AnalyzeCall

SpecAnalyze == InitAnalyze /\ [][NextAnalyze]_vars


-----------------------------------------------------------------------------
(* One call of get_changed_files, its commands run by run_git_command *)

OutAlphabet == {"a", " ", "\n"}
OutTexts == UNION {[1..n -> OutAlphabet] : n \in 0..MaxOut}

\* what a name-only command can do: exit with some output, or fail to start
CommandOutcomes ==
    {ExitOutcome(0, t, <<>>) : t \in OutTexts}
      \cup {ExitOutcome(128, t, <<"fatal", "\n">>) : t \in OutTexts}
      \cup {NotFoundOutcome, OSErrorOutcome}

ListerEnvs(commit_hash) ==
    IF commit_hash # NoCommit
    THEN [tree : CommandOutcomes, staged : {NoOutcome}, unstaged : {NoOutcome}]
    ELSE [tree : {NoOutcome}, staged : CommandOutcomes, unstaged : CommandOutcomes]

NotCalled == RunResult(0, <<>>, <<>>)

InitLister ==
    /\ ls \in UNION {[stage : {"called"}, commit : {c}, env : ListerEnvs(c), ran : {{}},
                       got : {[tree |-> NotCalled, staged |-> NotCalled, unstaged |-> NotCalled]},
                       ret : {<<>>}] : c \in Commits}
    /\ nm = NmIdle
    /\ an = AnIdle
    /\ cli = CliIdle
    /\ xp = XpIdle
    /\ sel = SelIdle
    /\ PipelineOff

\* a commit: the diff-tree command is run and the list returned
ListerTree ==
    /\ ls.stage = "called"
    /\ ls.commit # NoCommit
    /\ LET r == RunGitCommand(ls.env.tree)
       IN  IF r.raised
           THEN ls' = [ls EXCEPT !.stage = "raised"]
           ELSE ls' = [ls EXCEPT !.stage = "returned", !.ran = {"tree"}, !.got.tree = r,
                                 !.ret = GetChangedFiles(ls.commit,
                                           [tree |-> NameResult(r), staged |-> NotRun,
                                            unstaged |-> NotRun])]
    /\ UNCHANGED <<nm, an, cli, xp, sel, pipeline>>

\* no commit: the staged files are listed first
ListerStaged ==
    /\ ls.stage = "called"
    /\ ls.commit = NoCommit
    /\ LET r == RunGitCommand(ls.env.staged)
       IN  IF r.raised
           THEN ls' = [ls EXCEPT !.stage = "raised"]
           ELSE ls' = [ls EXCEPT !.stage = "staged", !.ran = {"staged"}, !.got.staged = r]
    /\ UNCHANGED <<nm, an, cli, xp, sel, pipeline>>

\* then the unstaged files, and the sorted list of both is returned
ListerUnstaged ==
    /\ ls.stage = "staged"
    /\ LET r == RunGitCommand(ls.env.unstaged)
       IN  IF r.raised
           THEN ls' = [ls EXCEPT !.stage = "raised"]
           ELSE ls' = [ls EXCEPT !.stage = "returned", !.ran = {"staged", "unstaged"},
                                 !.got.unstaged = r,
                                 !.ret = GetChangedFiles(ls.commit,
                                           [tree |-> NotRun, staged |-> NameResult(ls.got.staged),
                                            unstaged |-> NameResult(r)])]
    /\ UNCHANGED <<nm, an, cli, xp, sel, pipeline>>

NextLister == ListerTree \/ ListerStaged \/ ListerUnstaged

SpecLister == InitLister /\ [][NextLister]_vars

-----------------------------------------------------------------------------
(* The command-line tool: src/main.py *)

\* Python's None among the values of a flag, a prompt or a setting
Absent == "None"
\* bool(x) of a string or None
Truthy(x) == x # Absent /\ x # ""

\* the first of the except clauses that catches kind, 0 when none does
ClauseCatching(clauses, kind) ==
    LET hit == {i \in 1..Len(clauses) : clauses[i] \in Supers(kind)}
    IN  IF hit = {} THEN 0 ELSE CHOOSE i \in hit : \A j \in hit : i <= j

\* what GET /tags does: a response with a status and the installed models, or an exception
TagsResponse(status, models) == [kind |-> "response", status |-> status, models |-> models]
TagsRaised(kind) == [kind |-> kind, status |-> 0, models |-> <<>>]
ModelLists == {<<>>, <<"m1">>, <<"m1", "m2">>}
TagsOutcomes ==
    {TagsResponse(200, ms) : ms \in ModelLists} \cup {TagsResponse(500, <<"m1">>)}
      \cup {TagsRaised("ConnectionError"), TagsRaised("Timeout")}

\* get_models: the models of a 200 response, [] on another status or a ConnectionError
GetModels(o) ==
    IF o.kind = "response"
    THEN IF o.status = 200 THEN Returns(o.models) ELSE Returns(<<>>)
    ELSE IF ClauseCatching(<<"ConnectionError">>, o.kind) # 0 THEN Returns(<<>>)
    ELSE Raises(o.kind)

\* what the user can type at the model selection prompt
Choices == {"q", "Q", "0", "1", "2", "3", "x", ""}
\* int(choice): the number, or ValueError
IsInt(choice) == choice \in {"0", "1", "2", "3"}
IntOf(choice) == CASE choice = "0" -> 0 [] choice = "1" -> 1 [] choice = "2" -> 2 [] OTHER -> 3
\* choice.lower()
Lower(choice) == IF choice = "Q" THEN "q" ELSE choice

\* the pass taking the number typed as the index itself
SelectModelOffByOne(models, choice) ==
    IF models = <<>> THEN [done |-> TRUE, value |-> Absent]
    ELSE IF Lower(choice) = "q" THEN [done |-> TRUE, value |-> Absent]
    ELSE IF ~IsInt(choice) THEN [done |-> FALSE, value |-> Absent]
    ELSE LET index == IntOf(choice)
         IN  IF 0 <= index /\ index < Len(models)
             THEN [done |-> TRUE, value |-> models[index + 1]]
             ELSE [done |-> FALSE, value |-> Absent]

\* one pass of select_model on the input choice: it returns (done) None or a model name,
\* or calls itself again after an invalid or out-of-range input; without models it
\* returns None before it reads an input
SelectModel(models, choice) ==
    IF models = <<>> THEN [done |-> TRUE, value |-> Absent]
    ELSE IF Lower(choice) = "q" THEN [done |-> TRUE, value |-> Absent]
    ELSE IF ~IsInt(choice) THEN [done |-> FALSE, value |-> Absent]
    ELSE LET index == IntOf(choice) - 1
         IN  IF 0 <= index /\ index < Len(models)
             THEN [done |-> TRUE, value |-> models[index + 1]]
             ELSE [done |-> FALSE, value |-> Absent]

\* the flags of the command line: -m/--model, -c/--commit, --threads (0: not given)
ModelFlags == {Absent, "", "m2"}
CommitFlags == {Absent, "c1"}
NoThreads == 0
ThreadsFlags == {NoThreads, 1, 8}
\* the default model a configuration file holds, if any
SavedDefaults == {Absent, "m1"}

\* parser.add_argument("--threads", type=int, default=4)
THREADS_DEFAULT == 4
ParseThreads(flag) == IF flag = NoThreads THEN THREADS_DEFAULT ELSE flag

\* export_git_diffs(commit_hash, output_dir, max_workers: int = 4)
MAX_WORKERS_DEFAULT == 4
\* the pool size of export_git_diffs(commit_hash, output_dir) as analyze_git_changes
\* calls it: no third argument is passed
CallMaxWorkers(threads) == MAX_WORKERS_DEFAULT

\* the clauses around main() without the one for a user interrupt
TopHandlersWithoutInterrupt == <<"Exception">>

\* the except clauses around main(), in order, and the exit code of each
TopHandlers == <<"KeyboardInterrupt", "Exception">>
ExitCodeOf(clause) == IF clause = 1 THEN 0 ELSE 1
\* the exit code of an exception no clause catches: the interpreter's
UncaughtExit(kind) == IF kind = "KeyboardInterrupt" THEN 130 ELSE 1

NotExited == 0 - 1

InitMain ==
    /\ cli \in [stage : {"start"},
                 args : [model : ModelFlags, commit : CommitFlags, threads : ThreadsFlags],
                 saved : SavedDefaults,
                 threads : {0}, models : {<<>>}, commit_hash : {Absent}, selected : {Absent},
                 prompts : {<<>>}, inputs : {0}, pool : {0}, nfiles : {0}, ndiffs : {0},
                 done : {0}, why : {""}, at : {""}, exc : {""}, exit : {NotExited}]
    /\ nm = NmIdle
    /\ an = AnIdle
    /\ ls = LsIdle
    /\ xp = XpIdle
    /\ sel = SelIdle
    /\ PipelineOff

\* an exception leaves main from stage cli.stage
MainRaises(kind) == cli' = [cli EXCEPT !.stage = "raised", !.exc = kind, !.at = cli.stage]
\* main returns
MainReturns(c, why) == cli' = [c EXCEPT !.stage = "returned", !.why = why]

\* the arguments are parsed, the models fetched and displayed; without models main returns
MainStart ==
    /\ cli.stage = "start"
    /\ \E o \in TagsOutcomes :
         LET r == GetModels(o)
             c == [cli EXCEPT !.threads = ParseThreads(cli.args.threads), !.models = r.value,
                              !.commit_hash = cli.args.commit]
         IN  IF r.raised THEN MainRaises(r.exc)
             ELSE IF r.value = <<>> THEN MainReturns(c, "nomodels")
             ELSE cli' = [c EXCEPT !.stage = IF Truthy(cli.args.commit) THEN "model" ELSE "target"]
    /\ UNCHANGED <<nm, an, ls, xp, sel, pipeline>>

\* no commit flag: the user chooses between the uncommitted changes and a commit
MainTarget ==
    /\ cli.stage = "target"
    /\ \E choice \in {"1", "2", "EOFError"} :
         IF choice = "EOFError" THEN MainRaises("EOFError")
         ELSE cli' = [cli EXCEPT !.prompts = Append(@, "target"),
                                 !.stage = IF choice = "2" THEN "commit" ELSE "model"]
    /\ UNCHANGED <<nm, an, ls, xp, sel, pipeline>>

\* the latest commit is looked up and the user enters a commit hash, or takes the default
MainCommit ==
    /\ cli.stage = "commit"
    /\ \E latest \in {"", "c0"}, typed \in {"", "c1", "EOFError"} :
         IF typed = "EOFError" THEN MainRaises("EOFError")
         ELSE cli' = [cli EXCEPT !.prompts = Append(@, "commit"), !.stage = "model",
                                 !.commit_hash = IF typed = "" THEN latest ELSE typed]
    /\ UNCHANGED <<nm, an, ls, xp, sel, pipeline>>

\* selected_model = args.model or select_model(models): the flag, or the prompt
MainModel ==
    /\ cli.stage = "model"
    /\ IF Truthy(cli.args.model)
       THEN cli' = [cli EXCEPT !.selected = cli.args.model, !.stage = "export"]
       ELSE cli' = [cli EXCEPT !.stage = "select"]
    /\ UNCHANGED <<nm, an, ls, xp, sel, pipeline>>

\* select_model prompts and reads one input: a model, a quit, or the prompt again
MainSelectInput ==
    /\ cli.stage = "select"
    /\ cli.inputs < MaxPrompts
    /\ \E choice \in Choices \cup {"EOFError"} :
         LET r == SelectModel(cli.models, choice)
             c == [cli EXCEPT !.prompts = Append(@, "model"), !.inputs = @ + 1]
         IN  IF choice = "EOFError" THEN MainRaises("EOFError")
             ELSE IF ~r.done THEN cli' = c
             ELSE IF ~Truthy(r.value) THEN MainReturns(c, "quit")
             ELSE cli' = [c EXCEPT !.selected = r.value, !.stage = "export"]
    /\ UNCHANGED <<nm, an, ls, xp, sel, pipeline>>

\* analyze_git_changes calls export_git_diffs: the directory is made and cleared, the
\* changed files are listed and, when there are any, the pool is created
MainExport ==
    /\ cli.stage = "export"
    /\ \E mk \in {"ok", "PermissionError"}, nf \in 0..MaxFiles :
         IF mk # "ok" THEN MainRaises(mk)
         ELSE IF nf = 0 THEN MainReturns(cli, "nodiffs")
         ELSE cli' = [cli EXCEPT !.stage = "pool", !.nfiles = nf,
                                 !.pool = CallMaxWorkers(cli.threads)]
    /\ UNCHANGED <<nm, an, ls, xp, sel, pipeline>>

\* the pool maps save_diff_for_file over the files; without a diff file the run ends
MainPool ==
    /\ cli.stage = "pool"
    /\ \E nd \in 0..cli.nfiles :
         IF nd = 0 THEN MainReturns(cli, "nodiffs")
         ELSE cli' = [cli EXCEPT !.stage = "analyze", !.ndiffs = nd]
    /\ UNCHANGED <<nm, an, ls, xp, sel, pipeline>>

\* one diff file is analyzed, whatever the outcome; after the last one main returns
MainAnalyzeFile ==
    /\ cli.stage = "analyze"
    /\ LET c == [cli EXCEPT !.done = @ + 1]
       IN  IF c.done = cli.ndiffs THEN MainReturns(c, "complete") ELSE cli' = c
    /\ UNCHANGED <<nm, an, ls, xp, sel, pipeline>>

\* the user presses Ctrl-C while main runs
MainInterrupt ==
    /\ cli.stage \in {"start", "target", "commit", "model", "select", "export", "pool", "analyze"}
    /\ MainRaises("KeyboardInterrupt")
    /\ UNCHANGED <<nm, an, ls, xp, sel, pipeline>>

\* the process ends: main returned, or one of the clauses around main() calls sys.exit
MainExit ==
    /\ cli.stage \in {"returned", "raised"}
    /\ LET clause == ClauseCatching(TopHandlers, cli.exc)
       IN  cli' = [cli EXCEPT !.stage = "exited",
                              !.exit = IF cli.stage = "returned" THEN 0
                                       ELSE IF clause = 0 THEN UncaughtExit(cli.exc)
                                       ELSE ExitCodeOf(clause)]
    /\ UNCHANGED <<nm, an, ls, xp, sel, pipeline>>

NextMain ==
    \/ MainStart
    \/ MainTarget
    \/ MainCommit
    \/ MainModel
    \/ MainSelectInput
    \/ MainExport
    \/ MainPool
    \/ MainAnalyzeFile
    \/ MainInterrupt
    \/ MainExit

SpecMain == InitMain /\ [][NextMain]_vars

-----------------------------------------------------------------------------
(* The standalone exporter: src/git/engine.py *)

\* run_command: the stripped output of a command that exits with 0, "" otherwise
RunCommand(o) == IF o.kind = "exit" /\ o.rc = 0 THEN Strip(o.out) ELSE <<>>

\* str.split("\n"): the text between line breaks, one (empty) piece for an empty text
RECURSIVE SplitNewline(_)
SplitNewline(s) ==
    LET brk == {i \in 1..Len(s) : s[i] = "\n"}
    IN  IF brk = {} THEN <<s>>
        ELSE LET k == CHOOSE i \in brk : \A j \in brk : i <= j
             IN  <<SubSeq(s, 1, k - 1)>> \o SplitNewline(SubSeq(s, k + 1, Len(s)))

\* the lists that hold each member of S once: a set is iterated in no fixed order
ListsOf(S) ==
    {l \in [1..Cardinality(S) -> S] : \A i, j \in 1..Cardinality(S) : l[i] = l[j] => i = j}

\* get_changed_files of the exporter: what it can return; env as for ListerCall
ExporterChangedFiles(commit_hash, env) ==
    IF commit_hash # NoCommit
    THEN {SplitNewline(RunCommand(env.tree))}
    ELSE LET both == SplitNewline(RunCommand(env.staged)) \o SplitNewline(RunCommand(env.unstaged))
         IN  ListsOf({both[i] : i \in 1..Len(both)} \ {<<>>})

\* if not files or (len(files) == 1 and not files[0])
NoChangedFiles(fs) == fs = <<>> \/ (Len(fs) = 1 /\ fs[1] = <<>>)

\* file_path.replace("/", "__").replace("\\", "__") and the path of the diff file
ExporterOutputPath(file_path, output_dir) ==
    Join(output_dir,
         Replace(Replace(file_path, <<Sep>>, DoubleUnderscore), <<"\\">>, DoubleUnderscore)
           \o DiffSuffix)

\* save_diff_for_file: the directory after the unit of file_path, whose diff command
\* did o; nothing is written for an empty path, an empty diff or a write that raises
SaveDiffForFile(d, file_path, output_dir, o, wr) ==
    IF file_path = <<>> THEN d
    ELSE IF RunCommand(o) = <<>> THEN d
    ELSE IF WriteRaises(d, ExporterOutputPath(file_path, output_dir), wr) THEN d
    ELSE WriteFile(d, ExporterOutputPath(file_path, output_dir), 1)

\* clear_directory: every entry is removed but those whose removal raised
ClearDirectory(d, failed) == d \cap failed

\* export_git_diffs(args.commit, args.output, args.threads): the --no-clean flag is
\* not among the arguments, and the directory is cleared in every call
ClearsOutputDir(no_clean) == TRUE

\* what the name-only commands of the exporter do
ExporterEnvs(commit_hash) ==
    IF commit_hash # NoCommit
    THEN {[tree |-> t, staged |-> NoOutcome, unstaged |-> NoOutcome] :
            t \in {Printed(l) : l \in PoolLists} \cup {Fatal}}
    ELSE {[tree |-> NoOutcome, staged |-> s, unstaged |-> Printed(l)] :
            s \in {Printed(<<>>), Printed(<<<<"a">>>>), Fatal}, l \in PoolLists}

InitExporter ==
    /\ xp \in [stage : {"start"},
               args : [commit : Commits, threads : ThreadsFlags, no_clean : BOOLEAN],
               dir : SUBSET StaleEntries, before : {{}}, removed : {{}}, files : {<<>>},
               st : {<<>>}, max_workers : {0}, exit : {NotExited}]
    /\ nm = NmIdle
    /\ an = AnIdle
    /\ ls = LsIdle
    /\ cli = CliIdle
    /\ sel = SelIdle
    /\ PipelineOff

\* lines 241-243 and 190-194: the arguments are parsed, the directory is made (an
\* exception of os.makedirs ends the process with a traceback) and cleared
ExporterPrepare ==
    /\ xp.stage = "start"
    /\ \E made \in BOOLEAN, failed \in SUBSET xp.dir :
         IF ~made
         THEN xp' = [xp EXCEPT !.stage = "exit", !.exit = 1, !.before = xp.dir,
                               !.max_workers = ParseThreads(xp.args.threads)]
         ELSE LET d == IF ClearsOutputDir(xp.args.no_clean)
                       THEN ClearDirectory(xp.dir, failed) ELSE xp.dir
              IN  xp' = [xp EXCEPT !.stage = "list", !.before = xp.dir, !.dir = d,
                                   !.removed = xp.dir \ d,
                                   !.max_workers = ParseThreads(xp.args.threads)]
    /\ UNCHANGED <<nm, an, ls, cli, sel, pipeline>>

\* lines 203-212: the changed files; none ends the export
ExporterList ==
    /\ xp.stage = "list"
    /\ \E env \in ExporterEnvs(xp.args.commit) :
         \E fs \in ExporterChangedFiles(xp.args.commit, env) :
           IF NoChangedFiles(fs)
           THEN xp' = [xp EXCEPT !.stage = "exit", !.exit = 0, !.files = fs]
           ELSE xp' = [xp EXCEPT !.stage = "pool", !.files = fs,
                                 !.st = [i \in 1..Len(fs) |-> "queued"]]
    /\ UNCHANGED <<nm, an, ls, cli, sel, pipeline>>

ExporterRunning == {i \in 1..Len(xp.st) : xp.st[i] = "running"}

\* a free worker of ThreadPoolExecutor(max_workers) takes the next queued unit
ExporterUnitStart(i) ==
    /\ xp.stage = "pool"
    /\ xp.st[i] = "queued"
    /\ \A j \in 1..(i - 1) : xp.st[j] # "queued"
    /\ Cardinality(ExporterRunning) < xp.max_workers
    /\ xp' = [xp EXCEPT !.st[i] = "running"]
    /\ UNCHANGED <<nm, an, ls, cli, sel, pipeline>>

\* the unit runs save_diff_for_file
ExporterUnitSave(i) ==
    /\ xp.stage = "pool"
    /\ xp.st[i] = "running"
    /\ \E o \in DiffOutcomes, wr \in BOOLEAN :
         xp' = [xp EXCEPT !.st[i] = "done",
                          !.dir = SaveDiffForFile(xp.dir, xp.files[i], OutputDir, o, wr)]
    /\ UNCHANGED <<nm, an, ls, cli, sel, pipeline>>

\* the with block ends when every unit has finished; the script then ends
ExporterExit ==
    /\ xp.stage = "pool"
    /\ \A i \in 1..Len(xp.st) : xp.st[i] = "done"
    /\ xp' = [xp EXCEPT !.stage = "exit", !.exit = 0]
    /\ UNCHANGED <<nm, an, ls, cli, sel, pipeline>>

NextExporter ==
    \/ ExporterPrepare
    \/ ExporterList
    \/ \E i \in DOMAIN xp.st : ExporterUnitStart(i)
    \/ \E i \in DOMAIN xp.st : ExporterUnitSave(i)
    \/ ExporterExit

SpecExporter == InitExporter /\ [][NextExporter]_vars

-----------------------------------------------------------------------------
(* One call of select_model, src/main.py and src/_engine/ollama/model.py *)

MaxInputs == 3
NotReturned == "not returned"

InitSelect ==
    /\ sel \in [stage : {"called"}, models : ModelLists, typed : {<<>>}, ret : {NotReturned}]
    /\ nm = NmIdle
    /\ an = AnIdle
    /\ ls = LsIdle
    /\ cli = CliIdle
    /\ xp = XpIdle
    /\ PipelineOff

\* if not models: return None
SelectWithoutModels ==
    /\ sel.stage = "called"
    /\ sel.models = <<>>
    /\ sel' = [sel EXCEPT !.stage = "returned", !.ret = SelectModel(sel.models, "").value]
    /\ UNCHANGED <<nm, an, ls, cli, xp, pipeline>>

\* the prompt is shown and an input read: select_model returns, or calls itself
SelectInput ==
    /\ sel.stage = "called"
    /\ sel.models # <<>>
    /\ Len(sel.typed) < MaxInputs
    /\ \E choice \in Choices :
         LET r == SelectModel(sel.models, choice)
         IN  sel' = [sel EXCEPT !.typed = Append(@, choice),
                                !.stage = IF r.done THEN "returned" ELSE "called",
                                !.ret = IF r.done THEN r.value ELSE NotReturned]
    /\ UNCHANGED <<nm, an, ls, cli, xp, pipeline>>

NextSelect == SelectWithoutModels \/ SelectInput

SpecSelect == InitSelect /\ [][NextSelect]_vars

-----------------------------------------------------------------------------
(* Properties *)

\* export_git_diffs ran its pool and has returned
ExportEnded == hist.cur.pool /\ pc \in {"analyzing", "done", "raised"}

\* what the diff command of unit i printed and how it ended, as the process left it
RawDiff(p) == unitEnv[p].cmd
ExitedZero(p) == RawDiff(p).kind = "exit" /\ RawDiff(p).rc = 0
HasText(p) == \E k \in 1..Len(RawDiff(p).out) : RawDiff(p).out[k] \notin Whitespace

UnitOutputPath(i) == OutputPath(units[i].path, OutputDir)
Writers == Names(hist.cur.written)

\* C1: for every changed path with nested directories, the display name the analyzer
\* derives from the diff file the exporter names for it is the path itself.
NameRoundTrips ==
    (nm.stage = "displayed" /\ IsNested(nm.p)) => nm.disp = nm.p

\* C2 as stated: in a batch with a unit whose diff command exits non-zero, that unit
\* returns no path and writes no file, and every other unit runs to completion and has
\* its path returned whenever its own diff succeeded and is not empty.
FailedUnitLeavesSiblings ==
    (ExportEnded /\ hist.cur.failed # {}) =>
        /\ \A i \in hist.cur.failed : units[i].out = None /\ i \notin Writers
        /\ Len(ret) = Cardinality({i \in DOMAIN units : units[i].out # None})
        /\ \A i \in DOMAIN units \ hist.cur.failed :
             /\ units[i].st = "collected"
             /\ (ExitedZero(units[i].path) /\ HasText(units[i].path)) =>
                  units[i].out = UnitOutputPath(i) /\ Contains(ret, UnitOutputPath(i))

\* C2 amended: as above, but a sibling's path is returned when its diff succeeded, is
\* not empty and its file was written; a sibling whose write raised reports an error,
\* leaves no file and returns no path.
FailedUnitLeavesWrittenSiblings ==
    (ExportEnded /\ hist.cur.failed # {}) =>
        /\ \A i \in hist.cur.failed : units[i].out = None /\ i \notin Writers
        /\ Len(ret) = Cardinality({i \in DOMAIN units : units[i].out # None})
        /\ \A i \in DOMAIN units \ hist.cur.failed :
             /\ units[i].st = "collected"
             /\ (ExitedZero(units[i].path) /\ HasText(units[i].path)) =>
                  \/ /\ i \in Writers
                     /\ units[i].out = UnitOutputPath(i)
                     /\ Contains(ret, UnitOutputPath(i))
                  \/ /\ i \notin Writers
                     /\ i \in hist.cur.errors
                     /\ units[i].out = None

\* a batch where one unit's diff command failed and a sibling's path was returned
FailedUnitBesideExportedSibling ==
    ExportEnded /\ hist.cur.failed # {} /\ ret # <<>>

\* C3: when the lister returns an empty list, export_git_diffs returns an empty list,
\* creates no pool and no unit, runs no diff command and writes no file: the directory
\* stays as the clearing left it.
EmptyChangeSetExportsNothing ==
    (hist.cur.listed /\ files = <<>>) =>
        /\ ret = <<>>
        /\ ~hist.cur.pool
        /\ units = <<>>
        /\ hist.cur.diffs = <<>>
        /\ hist.cur.written = <<>>
        /\ dir = hist.cur.kept
        /\ \A e \in dir : e.by # run

\* the lister was called, returned nothing, and the export has returned
EmptyChangeSetReturned ==
    hist.cur.listed /\ files = <<>> /\ pc = "done"

\* C4: the second of two successive exports returns the same set of file names as the
\* first, and the directory then holds exactly the files the second run wrote.
ExportIsIdempotent ==
    (hist.prev.valid /\ hist.cur.listed /\ pc \in {"analyzing", "done"}) =>
        /\ Names(ret) = hist.prev.names
        /\ {e.path : e \in {f \in dir : f.kind = "file"}} = {UnitOutputPath(i) : i \in Writers}


\* the outcomes of a call that are a response or an exception of class Exception
\* (a user interrupt is no Exception: it is left to reach the top level)
OrdinaryOutcome ==
    an.rd # "ok" \/ an.h.kind = "response" \/ "Exception" \in Supers(an.h.kind)

\* the call failed: no file, no response, a response other than 200, or a 200 body
\* that holds no JSON object or a null content
CallFailed ==
    \/ an.rd # "ok"
    \/ an.h.kind # "response"
    \/ an.h.status # 200
    \/ an.h.body.json # "object"
    \/ an.h.body.content = "null"

\* C5: analyze_diff_with_llm raises nothing: a non-200 response gives a string that
\* starts with "Error:" and holds the status code, and a missing file, a failed
\* request or any other exception gives a string that starts with "Error:".
AnalyzeNeverRaises ==
    (an.stage = "left" /\ OrdinaryOutcome) =>
        /\ ~an.res.raised
        /\ CallFailed => StartsWith(an.res.value, <<"Error:">>)
        /\ (an.rd = "ok" /\ an.h.kind = "response" /\ an.h.status # 200) =>
             Contains(an.res.value, ToString(an.h.status))

\* a call answered with status 500 returned an error string
AnalyzeReturnedApiError ==
    /\ an.stage = "left"
    /\ an.rd = "ok"
    /\ an.h.kind = "response"
    /\ an.h.status = 500
    /\ ~an.res.raised
    /\ StartsWith(an.res.value, <<"Error:">>)

\* r is x without its leading and trailing whitespace
IsTrimOf(r, x) ==
    \E i \in 1..(Len(x) + 1), j \in 0..Len(x) :
        /\ r = SubSeq(x, i, j)
        /\ \A k \in 1..(i - 1) : x[k] \in Whitespace
        /\ \A k \in (j + 1)..Len(x) : x[k] \in Whitespace
        /\ r = <<>> \/ (r[1] \notin Whitespace /\ r[Len(r)] \notin Whitespace)

GotContent ==
    /\ an.stage = "left"
    /\ an.rd = "ok"
    /\ an.h.kind = "response"
    /\ an.h.status = 200
    /\ an.h.body.json = "object"
    /\ an.h.body.content = "string"

\* C6: on a 200 response whose body has message.content = X the call returns X with
\* its surrounding whitespace removed, for every X.
AnalyzeReturnsTrimmedContent ==
    GotContent => (~an.res.raised /\ IsTrimOf(an.res.value, an.h.body.text))

\* a content with surrounding whitespace came back trimmed
AnalyzeTrimmedSomething ==
    GotContent /\ an.res.value # an.h.body.text /\ an.res.value # <<>>

\* C7: the clearing removes every entry of output_dir, and an entry whose removal did
\* not complete aborts the export before changes are listed or a diff is generated.
FailedRemovalAbortsExport ==
    hist.cur.kept # {} =>
        (hist.cur.aborted /\ ~hist.cur.listed /\ ~hist.cur.pool /\ hist.cur.diffs = <<>>)

\* C8: the units of one export have pairwise distinct output paths, so that no two
\* workers write the same file.
DistinctOutputPaths ==
    \A i, j \in DOMAIN units : i # j => UnitOutputPath(i) # UnitOutputPath(j)

\* C9: every diff file sent to the model was written by a unit of the same run, and an
\* entry of the directory that this run did not write is never sent.
OnlyThisRunsFilesAreAnalyzed ==
    /\ \A k \in 1..Len(hist.cur.sent) :
         /\ \E i \in Writers : UnitOutputPath(i) = hist.cur.sent[k]
         /\ \E e \in dir : e.path = hist.cur.sent[k] /\ e.kind = "file" /\ e.by = run
    /\ \A e \in dir : e.by # run => ~Contains(hist.cur.sent, e.path)

\* a diff file was sent to the model while the directory held an older file
AnalyzedBesideStaleFile ==
    /\ hist.cur.sent # <<>>
    /\ \E e \in dir : e.kind = "file" /\ e.by # run

\* C10: a diff file is written only for a diff command that exited with code 0 and
\* printed more than whitespace; an empty diff gives no path and reports no error.
OnlyNonEmptyDiffsAreWritten ==
    /\ \A i \in Writers : ExitedZero(units[i].path) /\ HasText(units[i].path)
    /\ \A e \in dir : e.by # 0 =>
         \E p \in Names(listing.value) :
            e.path = OutputPath(p, OutputDir) /\ ExitedZero(p) /\ HasText(p)
    /\ \A i \in DOMAIN units :
         (units[i].st \in {"done", "collected"} /\ ExitedZero(units[i].path)
            /\ ~HasText(units[i].path)) =>
              (units[i].out = None /\ i \notin hist.cur.errors /\ i \notin Writers)

\* an export that wrote a diff file and skipped an empty diff
WroteOneSkippedEmpty ==
    /\ ExportEnded
    /\ hist.cur.written # <<>>
    /\ \E i \in DOMAIN units : ExitedZero(units[i].path) /\ ~HasText(units[i].path)

\* C11: run_git_command raises nothing: when the executable is not found or the process
\* cannot be started it returns (1, "", message), and otherwise the exit code of the
\* process with its stdout and stderr as (stripped) text.
RunGitCommandNeverRaises ==
    /\ ls.stage # "raised"
    /\ \A c \in ls.ran :
         /\ ~ls.got[c].raised
         /\ ls.env[c].kind = "exit" =>
              /\ ls.got[c].rc = ls.env[c].rc
              /\ IsTrimOf(ls.got[c].out, ls.env[c].out)
              /\ IsTrimOf(ls.got[c].err, ls.env[c].err)
         /\ ls.env[c].kind # "exit" =>
              /\ ls.got[c].rc = 1
              /\ ls.got[c].out = <<>>
              /\ ls.got[c].err # <<>>

\* a command whose process could not be started (not a missing executable) has returned
RunReturnedForUnstartedProcess ==
    \E c \in ls.ran : ls.env[c].kind = "PermissionError" /\ ls.got[c].rc = 1

\* the pieces of text s
Segments(s) == {SubSeq(s, i, j) : i \in 1..(Len(s) + 1), j \in 0..Len(s)}

\* l is a line of text s that holds more than whitespace
IsNonBlankLineOf(l, s) ==
    \E i \in 1..(Len(s) + 1), j \in 0..Len(s) :
        /\ l = SubSeq(s, i, j)
        /\ i = 1 \/ s[i - 1] = "\n"
        /\ j = Len(s) \/ s[j + 1] = "\n"
        /\ \A k \in 1..Len(l) : l[k] # "\n"
        /\ \E k \in 1..Len(l) : l[k] \notin Whitespace

UncommittedReturned == ls.stage = "returned" /\ ls.commit = NoCommit

\* C12: for uncommitted changes get_changed_files returns the union of the non-blank
\* lines the staged and the unstaged command printed, and when exactly one of the two
\* commands fails the lines of the other are still returned.
UncommittedListIsUnion ==
    UncommittedReturned =>
        LET so == ls.got.staged.out
            uo == ls.got.unstaged.out
        IN  /\ \A l \in Names(ls.ret) \cup Segments(so) \cup Segments(uo) :
                 l \in Names(ls.ret) <=> (IsNonBlankLineOf(l, so) \/ IsNonBlankLineOf(l, uo))
            /\ (ls.got.staged.rc # 0 /\ ls.got.unstaged.rc = 0) =>
                 \A l \in Segments(uo) : IsNonBlankLineOf(l, uo) => Contains(ls.ret, l)
            /\ (ls.got.staged.rc = 0 /\ ls.got.unstaged.rc # 0) =>
                 \A l \in Segments(so) : IsNonBlankLineOf(l, so) => Contains(ls.ret, l)

\* the staged command failed and the files of the unstaged command were returned
StagedFailedUnstagedReturned ==
    UncommittedReturned /\ ls.got.staged.rc # 0 /\ ls.got.unstaged.rc = 0 /\ ls.ret # <<>>

\* s comes before t in the order of Python strings
Before(s, t) ==
    \E k \in 1..(Len(t)) :
        /\ k <= Len(s) + 1
        /\ \A n \in 1..(k - 1) : s[n] = t[n]
        /\ k = Len(s) + 1 \/ CharRank(s[k]) < CharRank(t[k])

\* C13: for every target and every outcome of the commands, the list get_changed_files
\* returns is sorted and holds no path twice and no empty string.
ChangedFilesSortedNoDuplicates ==
    ls.stage = "returned" =>
        /\ \A i, j \in 1..Len(ls.ret) : i < j => Before(ls.ret[i], ls.ret[j])
        /\ \A i, j \in 1..Len(ls.ret) : i # j => ls.ret[i] # ls.ret[j]
        /\ \A i \in 1..Len(ls.ret) : ls.ret[i] # <<>>

\* two files were returned in the other order than the commands printed them
ChangedFilesReordered ==
    /\ UncommittedReturned
    /\ Len(ls.ret) = 2
    /\ SplitLines(ls.got.staged.out) = <<ls.ret[2]>>
    /\ SplitLines(ls.got.unstaged.out) = <<ls.ret[1]>>

\* the pairs of results whose result starts with "Error:"
ErrorPairs == {k \in 1..Len(results) : results[k][2] # <<>> /\ results[k][2][1] = "Error:"}

\* C14: analyze_git_changes returns one (filename, result) pair per exported diff file,
\* in the order of the files, also when analyses fail; the summary counts a pair as a
\* failure exactly when its result starts with "Error:", and successes plus failures
\* is the number of exported diff files.
OnePairPerDiffFile ==
    /\ Len(results) <= Len(ret)
    /\ \A k \in 1..Len(results) : results[k][1] = DisplayName(ret[k])
    /\ hist.cur.summary =>
         /\ Len(results) = Len(ret)
         /\ hist.cur.error_count = Cardinality(ErrorPairs)
         /\ hist.cur.success_count = Len(ret) - Cardinality(ErrorPairs)
         /\ hist.cur.success_count + hist.cur.error_count = Len(ret)
    /\ (pc = "done" /\ ret # <<>>) => hist.cur.summary

\* a summary that counted one success and one failure
SummaryOfOneSuccessOneFailure ==
    hist.cur.summary /\ hist.cur.success_count = 1 /\ hist.cur.error_count = 1

\* the state of a run, read off the position of analyze_git_changes
Phase(at) ==
    CASE at = "idle" -> "Idle"
      [] at \in {"cleared", "pool"} -> "Exporting"
      [] at = "analyzing" -> "Analyzing"
      [] OTHER -> "Done"

\* a step of a run: the export starts, goes on, and ends in the analysis when it returned
\* diff files and in a stop when it returned none; the analysis goes on and ends
PhaseStep ==
    LET from == Phase(pc)
        to == Phase(pc')
    IN  \/ from = to
        \/ from = "Idle" /\ to = "Exporting"
        \/ from \in {"Idle", "Exporting"} /\ to = "Done" /\ ret' = <<>>
        \/ from = "Exporting" /\ to = "Analyzing" /\ ret' # <<>>
        \/ from = "Analyzing" /\ to = "Done"
        \/ from = "Done" /\ to = "Idle" /\ run' = run + 1

\* C15: a run goes Idle, Exporting, then stops on an empty export or goes on to
\* Analyzing and Done; a chat request is sent only after the export has returned, and
\* none is sent when the export returned no diff file.
RunFollowsPhases ==
    /\ [][PhaseStep]_vars
    /\ [][Len(hist'.cur.sent) > Len(hist.cur.sent) =>
            (Phase(pc) = "Analyzing" /\ ret # <<>> /\ ret' = ret /\ run' = run)]_vars
    /\ [](req # 0 => Phase(pc) = "Analyzing")
    /\ [](ret = <<>> => (hist.cur.sent = <<>> /\ Phase(pc) # "Analyzing"))

\* the pool ran, every unit came back without a diff file, and the run stopped
EmptyExportStopped ==
    pc = "done" /\ hist.cur.pool /\ ret = <<>> /\ hist.cur.sent = <<>>

\* the current run found no changed file and the run before it failed to prepare the
\* directory; both exports have returned
EmptyChangeSetAfterFailedPreparation ==
    /\ run > 1
    /\ hist.prev.crit
    /\ hist.cur.listed /\ files = <<>> /\ pc = "done"

ModelPrompted == Contains(cli.prompts, "model")
\* main got past the resolution of the model
ModelResolved == cli.stage \in {"export", "pool", "analyze"} \/ cli.why \in {"nodiffs", "complete"}

\* C17: the model is resolved in the order flag, saved default, interactive selection:
\* with a model flag no prompt is shown, and without a flag a saved default model is
\* used before the user is prompted.
ModelResolvedInOrder ==
    /\ Truthy(cli.args.model) => (~ModelPrompted /\ (ModelResolved => cli.selected = cli.args.model))
    /\ (~Truthy(cli.args.model) /\ Truthy(cli.saved)) =>
         (~ModelPrompted /\ (ModelResolved => cli.selected = cli.saved))

\* C18: the process exits with code 1 on a fatal setup error (no model available, or
\* the output directory cannot be prepared), and with code 0 when the run completes or
\* the user quits the model selection.
ExitCodeTellsSetupFailure ==
    cli.stage = "exited" =>
        /\ cli.why = "nomodels" => cli.exit = 1
        /\ (cli.exc = "PermissionError" /\ cli.at = "export") => cli.exit = 1
        /\ cli.why \in {"quit", "nodiffs", "complete"} => cli.exit = 0

\* C19: a user interrupt at any point of main (prompting, export, analysis) ends the
\* process with exit code 0, and any other exception (of class Exception) that leaves
\* main ends it with exit code 1.
InterruptExitsZero ==
    /\ cli.stage = "exited" =>
         /\ cli.exc = "KeyboardInterrupt" => cli.exit = 0
         /\ (cli.exc # "" /\ cli.exc # "KeyboardInterrupt") => cli.exit = 1
         /\ cli.exc = "" => cli.exit = 0
    /\ cli.stage # "exited" => cli.exit = NotExited

\* the user interrupted the analysis and the process has ended
InterruptedAnalysisExited ==
    cli.stage = "exited" /\ cli.exc = "KeyboardInterrupt" /\ cli.at = "analyze" /\ cli.done > 0

\* C20: the worker pool of an export of the command-line tool has the size given by the
\* --threads flag, and 4 when the flag is omitted.
PoolSizeIsThreadsFlag ==
    cli.pool # 0 =>
        cli.pool = IF cli.args.threads = NoThreads THEN 4 ELSE cli.args.threads

NoCleanLeavesExistingFiles ==
    (xp.stage # "off" /\ xp.args.no_clean) => xp.removed = {}

\* C23: the clearing of the output directory completes before any worker unit starts:
\* a step that removes an entry of the directory is taken only while no unit of the
\* run exists, no diff command of the run was issued and no diff file of it written.
ClearingBeforeWorkers ==
    [][(\E e \in dir : \A f \in dir' : f.path # e.path) =>
          /\ pc = "idle"
          /\ units = <<>>
          /\ hist.cur.diffs = <<>>
          /\ hist.cur.written = <<>>]_vars

\* the second run removed every diff file of the first run and then wrote one itself
ClearedThenWorkerWrote ==
    /\ run = 2
    /\ hist.prev.ret # <<>>
    /\ hist.cur.cleared
    /\ hist.cur.kept = {}
    /\ hist.cur.written # <<>>

\* C24: during the export at most max_workers units are executing at any time, and
\* every changed file the lister returned is the path of exactly one submitted unit.
PoolBoundedOneUnitPerFile ==
    /\ Cardinality(Running) <= max_workers
    /\ hist.cur.pool =>
         /\ files = listing.value
         /\ Len(units) = Len(files)
         /\ \A i \in 1..Len(files) :
              Cardinality({j \in 1..Len(units) : units[j].path = files[i]}) = 1

\* the only worker of the pool is busy with the first unit while the second one waits
UnitWaitsForWorker ==
    /\ pc = "pool"
    /\ max_workers = 1
    /\ Len(units) = 2
    /\ Running = {1}
    /\ units[2].st = "queued"

\* C25: whatever the completion order of the units, the list export_git_diffs returns
\* holds exactly the output paths of the units that wrote a file in this run, and
\* holds each of these paths once.
ReturnedPathsOfWritersOnce ==
    ExportEnded =>
        /\ Names(ret) = {UnitOutputPath(i) : i \in Writers}
        /\ \A k, l \in 1..Len(ret) : ret[k] = ret[l] => k = l

\* C26: the analysis is sequential: at most one chat request is outstanding at any
\* moment, and a request is sent only when none is outstanding and every diff file
\* before it has its result recorded.
AnalysisIsSequential ==
    /\ [](Len(hist.cur.sent) <= Len(results) + 1)
    /\ [][Len(hist'.cur.sent) > Len(hist.cur.sent) =>
            /\ req = 0
            /\ Len(hist.cur.sent) <= Len(results)
            /\ req' = Len(results) + 1]_vars

\* the request for the second diff file is outstanding, the first result is recorded
SecondRequestAfterFirstResult ==
    pc = "analyzing" /\ req = 2 /\ Len(results) = 1 /\ Len(hist.cur.sent) = 2

\* C27: there are no retries: in one run at most one diff command is issued per changed
\* file and at most one chat request is sent per entry of the list of exported diff
\* files, in the order of the list, whatever the outcomes; and a failed diff command of
\* one file does not make the run fail: the export raises nothing, is not aborted, and
\* the run ends with the summary when a diff file was exported.
NoRetries ==
    /\ \A k, l \in 1..Len(hist.cur.diffs) :
         units[hist.cur.diffs[k]].path = units[hist.cur.diffs[l]].path => k = l
    /\ hist.cur.sent # <<>> =>
         \E f \in [1..Len(hist.cur.sent) -> 1..Len(ret)] :
            /\ \A k \in 1..Len(hist.cur.sent) : hist.cur.sent[k] = ret[f[k]]
            /\ \A k, l \in 1..Len(hist.cur.sent) : k < l => f[k] < f[l]
    /\ hist.cur.failed # {} =>
         /\ hist.cur.export_raised = ""
         /\ ~hist.cur.aborted
         /\ pc # "raised"
         /\ (pc = "done" /\ ret # <<>>) => hist.cur.summary

\* one diff command failed, the chat request for the other file's diff failed, and the
\* run ended with the summary
FailuresWithoutRetry ==
    /\ hist.cur.summary
    /\ hist.cur.failed # {}
    /\ Len(hist.cur.diffs) = 2
    /\ Len(hist.cur.sent) = 1
    /\ hist.cur.statuses = <<0>>

\* C28: in the summary of analyze_git_changes the files counted as successes are exactly
\* those whose request obtained an HTTP 200 response, whatever the content returned;
\* a file is counted as failed only when it obtained no 200 response.
SuccessIsStatus200 ==
    hist.cur.summary =>
        hist.cur.success_count =
            Cardinality({k \in 1..Len(hist.cur.statuses) : hist.cur.statuses[k] = 200})

\* the input is 'q' in either case; the input is the number of a model of the list
IsQuit(choice) == choice \in {"q", "Q"}
InRange(choice, models) == \E j \in 1..Len(models) : choice = ToString(j)

\* C29: select_model returns None exactly when the list is empty or the user enters
\* 'q' or 'Q'; it prompts again after every input that is neither that nor a number in
\* range, and returns the model at the first number in range, a name of the list.
SelectModelReturns ==
    LET n == Len(sel.typed)
    IN  /\ sel.stage = "returned" =>
             /\ sel.ret = Absent <=> (sel.models = <<>> \/ (n > 0 /\ IsQuit(sel.typed[n])))
             /\ sel.ret # Absent =>
                  \E j \in 1..Len(sel.models) :
                      sel.typed[n] = ToString(j) /\ sel.ret = sel.models[j]
             /\ \A k \in 1..(n - 1) :
                  ~IsQuit(sel.typed[k]) /\ ~InRange(sel.typed[k], sel.models)
        /\ sel.stage = "called" =>
             \A k \in 1..n : ~IsQuit(sel.typed[k]) /\ ~InRange(sel.typed[k], sel.models)

\* the second model was returned after an input that is no number and a number out of range
SelectedAfterTwoInvalidInputs ==
    /\ sel.stage = "returned"
    /\ sel.typed = <<"x", "3", "2">>
    /\ sel.ret = "m2"

\* analyze_git_changes returned its empty results after an empty or failed export
StoppedAfterExport ==
    /\ ret = <<>>
    /\ results = <<>>
    /\ hist.cur.sent = <<>>
    /\ ~hist.cur.summary
    /\ hist.cur.aborted \/ hist.cur.export_raised # "" \/ hist.cur.listed

\* the summary was printed after one analysis per entry of diff_files, in order; the
\* progress bar advanced once per result
SummaryAfterEveryFile ==
    /\ hist.cur.summary
    /\ ret # <<>>
    /\ Len(results) = Len(ret)
    /\ Len(hist.cur.statuses) = Len(ret)
    /\ \A k \in 1..Len(ret) : results[k][1] = DisplayName(ret[k])

=============================================================================
